---- MODULE Spec2Model ----
(***************************************************************************)
(* State-machine model of src/src/transpiler.ts: processFiles driving one  *)
(* resolveTypeNode pass per node of interest, and the recursion() closure  *)
(* of resolveTypeNode unfolded into an explicit call stack.                *)
(*                                                                         *)
(* The TypeScript checker and ./types (the "type oracle") are inputs: a    *)
(* hand-built type graph, Graph, answers every query recursion() makes.    *)
(* The Module<T> builder is caller code: it is modelled symbolically, each *)
(* build call returning a term that records the call and its arguments.    *)
(***************************************************************************)
EXTENDS Naturals, Sequences, FiniteSets

\* How many nodes of interest processFiles is given in one invocation.
MaxNodes == 2

\* Depth of the JavaScript call stack in recursion() frames: one more
\* nested call throws RangeError (Maximum call stack size exceeded).
StackLimit == 9

-----------------------------------------------------------------------------
(* The type oracle: a fake type graph.                                     *)

\* One ts.Symbol of a property, with the answers of the Types.* predicates
\* and of checker.getTypeOfSymbolAtLocation for it.
P(name, type) ==
    [name |-> name, type |-> type, proto |-> FALSE, decl |-> TRUE,
     getter |-> FALSE, private |-> FALSE, optional |-> FALSE]

\* One ts.Type with the answers of the Types.* predicates (flags) and of the
\* structural accessors.  value is <<>> for null; an index type is 0 when
\* the type has no such signature; decls is the length of
\* symbol.getDeclarations(), "undefined" when the symbol has none.
N(name, flags) ==
    [name |-> name, flags |-> flags,
     value |-> <<>>, negative |-> FALSE, intrinsicName |-> "",
     escapedName |-> name,
     typeArguments |-> <<>>, types |-> <<>>,
     stringIndex |-> 0, numberIndex |-> 0,
     properties |-> <<>>, exports |-> <<>>, decls |-> "1"]

TypeLabels ==
    << "number", "string", "undefined", "true", "false", "'x'", "-42n",
       "Date", "number[]", "[string, number]", "Dir", "Dir.Up", "Dir.Down",
       "Node", "Node | undefined", "Leaf", "Pair", "Dict", "NumDict",
       "BothDict", "SelfDict", "Class", "Fn", "string | undefined",
       "boolean | undefined", "string | number | undefined", "Anon",
       "Empty", "T", "Leaf & Dict", "Json", "Json[]", "unique symbol",
       "Shapes", "Holder", "Probe" >>

\* Types.getTypeId: the position of the type in the checker's table.
getTypeId(label) == CHOOSE i \in DOMAIN TypeLabels : TypeLabels[i] = label

TypeIds == DOMAIN TypeLabels

TypeNode(label) ==
    CASE label = "number" -> N("number", {"primitive"})
      [] label = "string" -> N("string", {"primitive"})
      [] label = "undefined" -> N("undefined", {"primitive", "undefined"})
      [] label = "true" ->
           [N("true", {"literal"}) EXCEPT !.intrinsicName = "true"]
      [] label = "false" ->
           [N("false", {"literal"}) EXCEPT !.intrinsicName = "false"]
      [] label = "'x'" -> [N("\"x\"", {"literal"}) EXCEPT !.value = <<"x">>]
      [] label = "-42n" ->
           [N("-42n", {"bigint", "literal"}) EXCEPT
              !.value = <<"42">>, !.negative = TRUE]
      \* Date is an interface: object-like as well as date-named.
      [] label = "Date" ->
           [N("Date", {"date", "object"}) EXCEPT
              !.properties = <<P("getTime", getTypeId("Fn"))>>]
      \* Arrays and tuples are object types with a number index signature.
      [] label = "number[]" ->
           [N("number[]", {"array", "object"}) EXCEPT
              !.typeArguments = <<getTypeId("number")>>,
              !.numberIndex = getTypeId("number")]
      [] label = "[string, number]" ->
           [N("[string, number]", {"tuple", "object"}) EXCEPT
              !.typeArguments = <<getTypeId("string"), getTypeId("number")>>]
      \* An enum is the union of its member literal types.
      [] label = "Dir" ->
           [N("Dir", {"enum", "union"}) EXCEPT
              !.types = <<getTypeId("Dir.Up"), getTypeId("Dir.Down")>>]
      [] label = "Dir.Up" ->
           [N("Dir.Up", {"literal"}) EXCEPT
              !.value = <<"0">>, !.escapedName = "Up"]
      [] label = "Dir.Down" ->
           [N("Dir.Down", {"literal"}) EXCEPT
              !.value = <<"1">>, !.escapedName = "Down"]
      \* interface Node { value: number; prev: Node; next?: Node }
      [] label = "Node" ->
           [N("Node", {"object"}) EXCEPT
              !.properties =
                 << P("value", getTypeId("number")),
                    P("prev", getTypeId("Node")),
                    [P("next", getTypeId("Node | undefined")) EXCEPT
                       !.optional = TRUE] >>]
      [] label = "Node | undefined" ->
           [N("Node | undefined", {"union"}) EXCEPT
              !.types = <<getTypeId("undefined"), getTypeId("Node")>>]
      [] label = "Leaf" ->
           [N("Leaf", {"object"}) EXCEPT
              !.properties = <<P("v", getTypeId("number"))>>]
      \* Sibling repeats of a plain object and of an indexable object.
      [] label = "Pair" ->
           [N("Pair", {"object"}) EXCEPT
              !.properties =
                 << P("first", getTypeId("Leaf")),
                    P("second", getTypeId("Leaf")),
                    P("d1", getTypeId("Dict")),
                    P("d2", getTypeId("Dict")) >>]
      \* { [key: string]: number; named: number }
      [] label = "Dict" ->
           [N("Dict", {"object"}) EXCEPT
              !.stringIndex = getTypeId("number"),
              !.properties = <<P("named", getTypeId("number"))>>]
      [] label = "NumDict" ->
           [N("NumDict", {"object"}) EXCEPT !.numberIndex = getTypeId("string")]
      [] label = "BothDict" ->
           [N("BothDict", {"object"}) EXCEPT
              !.stringIndex = getTypeId("Leaf"), !.numberIndex = getTypeId("number"),
              !.properties = <<P("a", getTypeId("number")),
                               P("b", getTypeId("string"))>>]
      \* interface SelfDict { [key: string]: SelfDict }
      [] label = "SelfDict" ->
           [N("SelfDict", {"object"}) EXCEPT !.stringIndex = getTypeId("SelfDict")]
      \* A class with one member of every kind the property loop tells apart.
      [] label = "Class" ->
           [N("Class", {"object"}) EXCEPT
              !.properties =
                 << P("id", getTypeId("number")),
                    [P("ghost", getTypeId("number")) EXCEPT !.decl = FALSE],
                    P("method", getTypeId("Fn")),
                    [P("computed", getTypeId("number")) EXCEPT
                       !.getter = TRUE],
                    [P("secret", getTypeId("string")) EXCEPT
                       !.private = TRUE],
                    [P("label", getTypeId("string | undefined")) EXCEPT
                       !.optional = TRUE],
                    P("flag", getTypeId("boolean | undefined")),
                    P("multi", getTypeId("string | number | undefined")),
                    [P("maybe", getTypeId("string")) EXCEPT
                       !.optional = TRUE] >>,
              !.exports =
                 << [P("prototype", getTypeId("Class")) EXCEPT
                       !.proto = TRUE],
                    P("count", getTypeId("number")),
                    P("create", getTypeId("Fn")) >>]
      [] label = "Fn" -> N("() => void", {"object", "functionLike"})
      [] label = "string | undefined" ->
           [N("string | undefined", {"union"}) EXCEPT
              !.types = <<getTypeId("undefined"), getTypeId("string")>>]
      [] label = "boolean | undefined" ->
           [N("boolean | undefined", {"union"}) EXCEPT
              !.types = <<getTypeId("undefined"), getTypeId("false"),
                          getTypeId("true")>>]
      [] label = "string | number | undefined" ->
           [N("string | number | undefined", {"union"}) EXCEPT
              !.types = <<getTypeId("undefined"), getTypeId("string"),
                          getTypeId("number")>>]
      \* An object type whose symbol is synthetic: no declarations.
      [] label = "Anon" ->
           [N("{ v: number; }", {"object"}) EXCEPT
              !.decls = "undefined",
              !.properties = <<P("v", getTypeId("number"))>>]
      \* An object type whose symbol has an empty declarations array.
      [] label = "Empty" ->
           [N("typeof globalThis", {"object"}) EXCEPT !.decls = "0"]
      [] label = "T" -> N("T", {"generic"})
      [] label = "Leaf & Dict" ->
           [N("Leaf & Dict", {"intersection"}) EXCEPT
              !.types = <<getTypeId("Leaf"), getTypeId("Dict")>>]
      \* type Json = string | Json[]
      [] label = "Json" ->
           [N("Json", {"union"}) EXCEPT
              !.types = <<getTypeId("string"), getTypeId("Json[]")>>]
      [] label = "Json[]" ->
           [N("Json[]", {"array", "object"}) EXCEPT
              !.typeArguments = <<getTypeId("Json")>>,
              !.numberIndex = getTypeId("Json")]
      \* No Types.* predicate holds of it.
      [] label = "unique symbol" -> N("unique symbol", {})
      [] label = "Shapes" ->
           [N("Shapes", {"object"}) EXCEPT
              !.properties =
                 << P("when", getTypeId("Date")),
                    P("list", getTypeId("number[]")),
                    P("pair", getTypeId("[string, number]")),
                    P("dir", getTypeId("Dir")),
                    P("x", getTypeId("'x'")),
                    P("big", getTypeId("-42n")),
                    P("yes", getTypeId("true")),
                    P("t", getTypeId("T")),
                    P("both", getTypeId("Leaf & Dict")),
                    P("nums", getTypeId("NumDict")),
                    P("bd", getTypeId("BothDict")),
                    P("anon", getTypeId("Anon")),
                    P("nested", getTypeId("Pair")) >>]
      [] label = "Holder" ->
           [N("Holder", {"object"}) EXCEPT
              !.properties =
                 << P("sym", getTypeId("unique symbol")),
                    P("global", getTypeId("Empty")),
                    P("sd", getTypeId("SelfDict")) >>]
      \* Every accessor answers for Probe, whatever predicates hold of it.
      [] label = "Probe" ->
           [N("Probe", {}) EXCEPT
              !.value = <<"7">>,
              !.typeArguments = <<getTypeId("number")>>,
              !.types = <<getTypeId("string"), getTypeId("undefined")>>,
              !.properties = <<P("p", getTypeId("string"))>>]

\* The checker's table of types, indexed by type id.
RECURSIVE TypeTable(_)
TypeTable(n) ==
    IF n = 0 THEN <<>> ELSE Append(TypeTable(n - 1), TypeNode(TypeLabels[n]))

Graph == TypeTable(Len(TypeLabels))

\* The predicates of ./types that recursion() dispatches on, in no order.
Predicates ==
    {"bigint", "literal", "primitive", "array", "tuple", "enum", "date",
     "object", "generic", "union", "intersection"}

-----------------------------------------------------------------------------
VARIABLES
    probeFlags,         \* the Types.* predicates that hold of Probe
    nodesOfInterest,    \* processFiles: the nodes selected from the files
    returnDefinitions,  \* options.returnDefinitions
    done,               \* processFiles: nodes whose pass is complete
    driver,             \* where processFiles is
    visited,            \* resolveTypeNode: the visited map
    stack,              \* the recursion() calls in progress, innermost last
    ret,                \* what the outermost recursion() call returned
    calls,              \* the builder calls of the current pass, in order
    life,               \* startResolution / endResolution calls, in order
    results             \* the array processFiles returns

vars ==
    << probeFlags, nodesOfInterest, returnDefinitions, done, driver, visited,
       stack, ret, calls, life, results >>

\* The syntax nodes Compiler.getNodesToProcess can select, each with its file
\* and the type checker.getTypeAtLocation gives for it.
Declarations ==
    { [fileName |-> "a.ts", type |-> getTypeId("Node")],
      [fileName |-> "a.ts", type |-> getTypeId("Pair")],
      [fileName |-> "a.ts", type |-> getTypeId("Class")],
      [fileName |-> "b.ts", type |-> getTypeId("Shapes")],
      [fileName |-> "b.ts", type |-> getTypeId("Holder")],
      [fileName |-> "b.ts", type |-> getTypeId("Json")] }

ProbeDeclaration == [fileName |-> "probe.ts", type |-> getTypeId("Probe")]

SeqsUpTo(S, n) == UNION { [1..m -> S] : m \in 0..n }

-----------------------------------------------------------------------------
(* Oracle queries.                                                         *)

Flags(t) == IF t = getTypeId("Probe") THEN probeFlags ELSE Graph[t].flags

typeToString(t) == Graph[t].name

isBigIntLiteral(t) == "bigint" \in Flags(t)
isLiteral(t) == "literal" \in Flags(t)
isPrimitive(t) == "primitive" \in Flags(t)
isArray(t) == "array" \in Flags(t)
isTuple(t) == "tuple" \in Flags(t)
isEnum(t) == "enum" \in Flags(t)
isDate(t) == "date" \in Flags(t)
isObject(t) == "object" \in Flags(t)
isGenericType(t) == "generic" \in Flags(t)
isUnion(t) == "union" \in Flags(t)
isIntersection(t) == "intersection" \in Flags(t)
isFunctionLike(t) == "functionLike" \in Flags(t)
isUndefined(t) == "undefined" \in Flags(t)
isDefined(t) == ~isUndefined(t)

\* Exactly the true literal and the false literal, in either order.
isUnionBoolean(ts) ==
    /\ Len(ts) = 2
    /\ \A i \in 1..2 : isLiteral(ts[i]) /\ Graph[ts[i]].value = <<>>
    /\ {Graph[ts[i]].intrinsicName : i \in 1..2} = {"true", "false"}

-----------------------------------------------------------------------------
(* The builder: every call returns a term naming the call and its          *)
(* arguments.                                                              *)

IR(tag) ==
    [tag |-> tag, text |-> <<>>, kind |-> "", kids |-> <<>>,
     members |-> <<>>, props |-> <<>>, id |-> 0, name |-> ""]

buildAny == IR("any")
buildDate == IR("date")
buildPrimitive(typeString) == [IR("primitive") EXCEPT !.kind = typeString]
buildArray(resolvedType) == [IR("array") EXCEPT !.kids = <<resolvedType>>]
buildTuple(resolvedTypes) == [IR("tuple") EXCEPT !.kids = resolvedTypes]
buildUnion(resolvedTypes) == [IR("union") EXCEPT !.kids = resolvedTypes]
buildIntersection(resolvedTypes) ==
    [IR("intersection") EXCEPT !.kids = resolvedTypes]
buildEnum(resolvedTypes) == [IR("enum") EXCEPT !.members = resolvedTypes]
\* kind tells a string from a number from a boolean argument.
buildLiteral(kind, text) ==
    [IR("literal") EXCEPT !.kind = kind, !.text = text]
buildObject(properties, type) ==
    [IR("object") EXCEPT
       !.props = properties, !.id = type.id, !.name = type.name]
buildReference(type) ==
    [IR("reference") EXCEPT !.id = type.id, !.name = type.name]
buildIndexableObject(resolvedType, kind) ==
    [IR("indexableObject") EXCEPT !.kids = <<resolvedType>>, !.kind = kind]
endResolution(resolvedType) ==
    [IR("endResolution") EXCEPT !.kids = <<resolvedType>>]
endResolutionWithDefinitions(resolvedType) ==
    [IR("endResolutionWithDefinitions") EXCEPT !.kids = <<resolvedType>>]

\* A string the code returns "as any" in place of a T.
Sentinel(message) == [IR("string") EXCEPT !.text = <<message>>]

-----------------------------------------------------------------------------
(* resolveTypeNode: helpers and the visited map.                           *)

\* getClassStaticDeclarations(type.symbol): the symbol's exports, in order.
getClassStaticDeclarations(t) == Graph[t].exports

\* getIndexType with the number index type tried first.
getIndexTypeNumberFirst(t) ==
    IF Graph[t].numberIndex # 0
      THEN [kind |-> "number", indexType |-> Graph[t].numberIndex]
      ELSE IF Graph[t].stringIndex # 0
        THEN [kind |-> "string", indexType |-> Graph[t].stringIndex]
        ELSE [kind |-> "", indexType |-> 0]

\* getIndexType(type): the string index type before the number index type;
\* kind "" stands for null.
getIndexType(t) ==
    IF Graph[t].stringIndex # 0
      THEN [kind |-> "string", indexType |-> Graph[t].stringIndex]
      ELSE IF Graph[t].numberIndex # 0
        THEN [kind |-> "number", indexType |-> Graph[t].numberIndex]
        ELSE [kind |-> "", indexType |-> 0]

\* const identification = { id: typeId, name: typeString }
identification(t) == [id |-> t, name |-> typeToString(t)]

emptyMap == [id \in {} |-> identification(id)]

\* A visited map that outlives the pass that filled it.
newVisitedShared == visited

\* const visited = new Map<number, TypeIdentification>()
newVisited == emptyMap

\* A visited.set that does nothing.
visitedSetLost(t) == visited

\* visited.set(typeId, identification)
visitedSet(t) ==
    [id \in DOMAIN visited \cup {t} |->
       IF id = t THEN identification(t) ELSE visited[id]]

\* A visited.delete that does nothing.
visitedDeleteLost(t) == visited

\* visited.delete(typeId)
visitedDelete(t) == [id \in DOMAIN visited \ {t} |-> visited[id]]

\* A visited.has that never finds the id.
visitedHasNever(t) == FALSE

\* visited.has(typeId)
visitedHas(t) == t \in DOMAIN visited

\* The if-chain with the union test moved up, before the enum test.
BranchUnionEarly(t) ==
    IF isBigIntLiteral(t) THEN "bigint"
    ELSE IF isLiteral(t) THEN "literal"
    ELSE IF isPrimitive(t) THEN "primitive"
    ELSE IF isArray(t) THEN "array"
    ELSE IF isTuple(t) THEN "tuple"
    ELSE IF isUnion(t) THEN "union"
    ELSE IF isEnum(t) THEN "enum"
    ELSE IF isDate(t) THEN "date"
    ELSE IF isObject(t) THEN "object"
    ELSE IF isGenericType(t) THEN "generic"
    ELSE IF isIntersection(t) THEN "intersection"
    ELSE "none"

\* The if-chain of recursion(): the first test that succeeds.
Branch(t) ==
    IF isBigIntLiteral(t) THEN "bigint"
    ELSE IF isLiteral(t) THEN "literal"
    ELSE IF isPrimitive(t) THEN "primitive"
    ELSE IF isArray(t) THEN "array"
    ELSE IF isTuple(t) THEN "tuple"
    ELSE IF isEnum(t) THEN "enum"
    ELSE IF isDate(t) THEN "date"
    ELSE IF isObject(t) THEN "object"
    ELSE IF isGenericType(t) THEN "generic"
    ELSE IF isUnion(t) THEN "union"
    ELSE IF isIntersection(t) THEN "intersection"
    ELSE "none"

\* checker.getPropertiesOfType(type).concat(staticProperties)
properties(t) == Graph[t].properties \o getClassStaticDeclarations(t)

\* The early returns without the one for private properties.
isSkippedKeepingPrivate(property) ==
    \/ property.proto
    \/ ~property.decl
    \/ isObject(property.type) /\ isFunctionLike(property.type)
    \/ property.getter

\* The early returns of the properties.forEach callback.
isSkipped(property) ==
    \/ property.proto
    \/ ~property.decl
    \/ isObject(property.type) /\ isFunctionLike(property.type)
    \/ property.getter
    \/ property.private

\* Types.isUnion(propertyType) && propertyType.types.some(isUndefined)
maybeUndefined(propertyType) ==
    /\ isUnion(propertyType)
    /\ \E i \in DOMAIN Graph[propertyType].types :
          isUndefined(Graph[propertyType].types[i])

\* The members of the union with nothing filtered out.
definedTypesUnfiltered(t) == Graph[t].types

\* type.types.filter(Types.isDefined)
definedTypes(t) == SelectSeq(Graph[t].types, isDefined)

-----------------------------------------------------------------------------
(* recursion(): the call stack.                                            *)

\* A recursion(type) call that has not run yet.  entry remembers the keys
\* of the visited map when the call was made.
Frame(t, keys) ==
    [type |-> t, pc |-> "call", i |-> 1, kids |-> <<>>, members |-> <<>>,
     props |-> <<>>, entry |-> keys]

Top == stack[Len(stack)]

Running == driver = "resolving" /\ stack # <<>>

\* The types the frame's loop calls recursion() on, in order.
Children(f) ==
    CASE f.pc = "array" -> <<Graph[f.type].typeArguments[1]>>
      [] f.pc = "tuple" -> Graph[f.type].typeArguments
      [] f.pc = "enum" -> Graph[f.type].types
      [] f.pc = "index" -> <<getIndexType(f.type).indexType>>
      [] f.pc = "union" -> definedTypes(f.type)
      [] f.pc = "intersection" -> Graph[f.type].types
      [] OTHER -> <<>>

\* The caller's frame once the call it is waiting for has returned v.
Resume(f, v) ==
    CASE f.pc = "props" ->
           LET property == properties(f.type)[f.i] IN
           [f EXCEPT
              !.i = f.i + 1,
              !.props = Append(f.props,
                 [isOptional |-> property.optional,
                  maybeUndefined |-> maybeUndefined(property.type),
                  name |-> property.name,
                  resolvedType |-> v])]
      [] f.pc = "enum" ->
           [f EXCEPT
              !.i = f.i + 1,
              !.members = Append(f.members,
                 [key |-> Graph[Children(f)[f.i]].escapedName, value |-> v])]
      [] OTHER -> [f EXCEPT !.i = f.i + 1, !.kids = Append(f.kids, v)]

\* The innermost call returns v to its caller, or to resolveTypeNode.
Pop(v) ==
    IF Len(stack) = 1
      THEN /\ stack' = <<>>
           /\ ret' = v
           /\ driver' = "resolved"
      ELSE /\ stack' = [SubSeq(stack, 1, Len(stack) - 1) EXCEPT
                          ![Len(stack) - 1] = Resume(stack[Len(stack) - 1], v)]
           /\ UNCHANGED <<ret, driver>>

\* return module.fn(...): the builder call is made, its result returned.
\* The log keeps which call made it and the visited keys at that call's entry.
Return(fn, v) ==
    /\ calls' = Append(calls, [fn |-> fn, type |-> Top.type, ir |-> v,
                                entry |-> Top.entry])
    /\ Pop(v)

\* The innermost call goes on to the loop of its branch.
Enter(pc) ==
    /\ stack' = [stack EXCEPT ![Len(stack)].pc = pc]
    /\ UNCHANGED <<ret, driver, calls>>

outer == <<probeFlags, nodesOfInterest, returnDefinitions, done, life, results>>

Dispatching(branch) ==
    /\ Running
    /\ Top.pc = "call"
    /\ Branch(Top.type) = branch

Looping(pc) ==
    /\ Running
    /\ Top.pc = pc

BigIntLiteral ==
    /\ Dispatching("bigint")
    /\ LET type == Graph[Top.type] IN
       Return("buildLiteral",
              buildLiteral("string",
                 IF type.negative THEN <<"-">> \o type.value ELSE type.value))
    /\ UNCHANGED <<visited, outer>>

Literal ==
    /\ Dispatching("literal")
    /\ LET type == Graph[Top.type] IN
       IF type.value = <<>>
         THEN Return("buildLiteral",
                 buildLiteral("boolean",
                    IF type.intrinsicName = "true"
                      THEN <<"true">> ELSE <<"false">>))
         ELSE Return("buildLiteral", buildLiteral("value", type.value))
    /\ UNCHANGED <<visited, outer>>

Primitive ==
    /\ Dispatching("primitive")
    /\ Return("buildPrimitive", buildPrimitive(typeToString(Top.type)))
    /\ UNCHANGED <<visited, outer>>

EnterArray ==
    /\ Dispatching("array")
    /\ Enter("array")
    /\ UNCHANGED <<visited, outer>>

EnterTuple ==
    /\ Dispatching("tuple")
    /\ Enter("tuple")
    /\ UNCHANGED <<visited, outer>>

EnterEnum ==
    /\ Dispatching("enum")
    /\ Enter("enum")
    /\ UNCHANGED <<visited, outer>>

Date ==
    /\ Dispatching("date")
    /\ Return("buildDate", buildDate)
    /\ UNCHANGED <<visited, outer>>

ObjectReference ==
    /\ Dispatching("object")
    /\ visitedHas(Top.type)
    /\ Return("buildReference", buildReference(identification(Top.type)))
    /\ UNCHANGED <<visited, outer>>

EnterIndexable ==
    /\ Dispatching("object")
    /\ ~visitedHas(Top.type)
    /\ getIndexType(Top.type).kind # ""
    /\ visited' = visitedSet(Top.type)
    /\ Enter("index")
    /\ UNCHANGED outer

ObjectNoDeclarations ==
    /\ Dispatching("object")
    /\ ~visitedHas(Top.type)
    /\ getIndexType(Top.type).kind = ""
    /\ Graph[Top.type].decls = "undefined"
    /\ Return("buildObject", buildObject(<<>>, identification(Top.type)))
    /\ UNCHANGED <<visited, outer>>

ObjectZeroDeclarations ==
    /\ Dispatching("object")
    /\ ~visitedHas(Top.type)
    /\ getIndexType(Top.type).kind = ""
    /\ Graph[Top.type].decls = "0"
    /\ Pop(Sentinel("Not supported - declarations of length 0 for symbol"))
    /\ UNCHANGED <<calls, visited, outer>>

EnterObject ==
    /\ Dispatching("object")
    /\ ~visitedHas(Top.type)
    /\ getIndexType(Top.type).kind = ""
    /\ Graph[Top.type].decls \notin {"undefined", "0"}
    /\ visited' = visitedSet(Top.type)
    /\ Enter("props")
    /\ UNCHANGED outer

PropertySkip ==
    /\ Looping("props")
    /\ Top.i <= Len(properties(Top.type))
    /\ isSkipped(properties(Top.type)[Top.i])
    /\ stack' = [stack EXCEPT ![Len(stack)].i = Top.i + 1]
    /\ UNCHANGED <<ret, driver, calls, visited, outer>>

PropertyRecurse ==
    /\ Looping("props")
    /\ Top.i <= Len(properties(Top.type))
    /\ ~isSkipped(properties(Top.type)[Top.i])
    /\ Len(stack) < StackLimit
    /\ stack' = Append(stack,
                   Frame(properties(Top.type)[Top.i].type, DOMAIN visited))
    /\ UNCHANGED <<ret, driver, calls, visited, outer>>

FinishObject ==
    /\ Looping("props")
    /\ Top.i > Len(properties(Top.type))
    /\ visited' = visitedDelete(Top.type)
    /\ Return("buildObject", buildObject(Top.props, identification(Top.type)))
    /\ UNCHANGED outer

Generic ==
    /\ Dispatching("generic")
    /\ Return("buildAny", buildAny)
    /\ UNCHANGED <<visited, outer>>

UnionBoolean ==
    /\ Dispatching("union")
    /\ isUnionBoolean(definedTypes(Top.type))
    /\ Return("buildPrimitive", buildPrimitive("boolean"))
    /\ UNCHANGED <<visited, outer>>

EnterUnion ==
    /\ Dispatching("union")
    /\ ~isUnionBoolean(definedTypes(Top.type))
    /\ Enter("union")
    /\ UNCHANGED <<visited, outer>>

EnterIntersection ==
    /\ Dispatching("intersection")
    /\ Enter("intersection")
    /\ UNCHANGED <<visited, outer>>

NotSupported ==
    /\ Dispatching("none")
    /\ Pop(Sentinel("Not supported"))
    /\ UNCHANGED <<calls, visited, outer>>

LoopPcs == {"array", "tuple", "enum", "index", "union", "intersection"}

\* The next recursion(...) call of an array, tuple, enum, index, union or
\* intersection branch.
ChildCall ==
    /\ Running
    /\ Top.pc \in LoopPcs
    /\ Top.i <= Len(Children(Top))
    /\ Len(stack) < StackLimit
    /\ stack' = Append(stack, Frame(Children(Top)[Top.i], DOMAIN visited))
    /\ UNCHANGED <<ret, driver, calls, visited, outer>>

FinishArray ==
    /\ Looping("array")
    /\ Top.i > Len(Children(Top))
    /\ Return("buildArray", buildArray(Top.kids[1]))
    /\ UNCHANGED <<visited, outer>>

FinishTuple ==
    /\ Looping("tuple")
    /\ Top.i > Len(Children(Top))
    /\ Return("buildTuple", buildTuple(Top.kids))
    /\ UNCHANGED <<visited, outer>>

FinishEnum ==
    /\ Looping("enum")
    /\ Top.i > Len(Children(Top))
    /\ Return("buildEnum", buildEnum(Top.members))
    /\ UNCHANGED <<visited, outer>>

FinishIndexable ==
    /\ Looping("index")
    /\ Top.i > Len(Children(Top))
    /\ Return("buildIndexableObject",
              buildIndexableObject(Top.kids[1], getIndexType(Top.type).kind))
    /\ UNCHANGED <<visited, outer>>

FinishUnion ==
    /\ Looping("union")
    /\ Top.i > Len(Children(Top))
    /\ Return("buildUnion", buildUnion(Top.kids))
    /\ UNCHANGED <<visited, outer>>

FinishIntersection ==
    /\ Looping("intersection")
    /\ Top.i > Len(Children(Top))
    /\ Return("buildIntersection", buildIntersection(Top.kids))
    /\ UNCHANGED <<visited, outer>>

\* A recursion(...) call with the call stack full: RangeError, which nothing
\* catches, so processFiles throws.
StackOverflow ==
    /\ Running
    /\ Len(stack) >= StackLimit
    /\ \/ Top.pc \in LoopPcs /\ Top.i <= Len(Children(Top))
       \/ /\ Top.pc = "props"
          /\ Top.i <= Len(properties(Top.type))
          /\ ~isSkipped(properties(Top.type)[Top.i])
    /\ driver' = "thrown"
    /\ UNCHANGED <<stack, ret, calls, visited, outer>>

-----------------------------------------------------------------------------
(* processFiles.                                                           *)

\* The callback of nodesOfInterest.map, up to the return of resolveTypeNode's
\* first recursion() call: startResolution(), a new visited map, the type at
\* the node.
StartPass ==
    /\ driver = "idle"
    /\ done < Len(nodesOfInterest)
    /\ life' = Append(life, [fn |-> "startResolution", arg |-> IR("")])
    /\ visited' = newVisited
    /\ stack' = <<Frame(nodesOfInterest[done + 1].type, DOMAIN visited')>>
    /\ calls' = <<>>
    /\ driver' = "resolving"
    /\ UNCHANGED <<probeFlags, nodesOfInterest, returnDefinitions, done, ret,
                   results>>

\* The rest of the callback: the end of the resolution and the entry of the
\* result array.
EndPass ==
    /\ driver = "resolved"
    /\ LET fileName == nodesOfInterest[done + 1].fileName IN
       IF returnDefinitions
         THEN /\ life' = Append(life, [fn |-> "endResolutionWithDefinitions",
                                       arg |-> ret])
              /\ results' = Append(results,
                    [fileName |-> fileName,
                     resolvedType |-> endResolutionWithDefinitions(ret),
                     definitionsMap |-> TRUE])
         ELSE /\ life' = Append(life, [fn |-> "endResolution", arg |-> ret])
              /\ results' = Append(results,
                    [fileName |-> fileName,
                     resolvedType |-> endResolution(ret),
                     definitionsMap |-> FALSE])
    /\ done' = done + 1
    /\ driver' = "idle"
    /\ UNCHANGED <<probeFlags, nodesOfInterest, returnDefinitions, visited,
                   stack, ret, calls>>

\* nodesOfInterest.map has run over every node: processFiles returns.
ReturnResults ==
    /\ driver = "idle"
    /\ done = Len(nodesOfInterest)
    /\ driver' = "returned"
    /\ UNCHANGED <<probeFlags, nodesOfInterest, returnDefinitions, done,
                   visited, stack, ret, calls, life, results>>

-----------------------------------------------------------------------------

Init ==
    /\ \/ /\ probeFlags = {}
          /\ nodesOfInterest \in SeqsUpTo(Declarations, MaxNodes)
          /\ returnDefinitions \in BOOLEAN
       \/ /\ probeFlags \in SUBSET Predicates
          /\ nodesOfInterest = <<ProbeDeclaration>>
          /\ returnDefinitions = FALSE
    /\ done = 0
    /\ driver = "idle"
    /\ visited = emptyMap
    /\ stack = <<>>
    /\ ret = IR("")
    /\ calls = <<>>
    /\ life = <<>>
    /\ results = <<>>

Next ==
    \/ StartPass \/ EndPass \/ ReturnResults
    \/ BigIntLiteral \/ Literal \/ Primitive
    \/ EnterArray \/ EnterTuple \/ EnterEnum \/ Date
    \/ ObjectReference \/ EnterIndexable \/ ObjectNoDeclarations
    \/ ObjectZeroDeclarations \/ EnterObject
    \/ PropertySkip \/ PropertyRecurse \/ FinishObject
    \/ Generic \/ UnionBoolean \/ EnterUnion \/ EnterIntersection
    \/ NotSupported
    \/ ChildCall
    \/ FinishArray \/ FinishTuple \/ FinishEnum \/ FinishIndexable
    \/ FinishUnion \/ FinishIntersection
    \/ StackOverflow

Spec == Init /\ [][Next]_vars

-----------------------------------------------------------------------------
(* The documented behaviour, stated without the model's own dispatch.      *)

\* The precedence order of the categories.
Precedence ==
    << "bigint", "literal", "primitive", "array", "tuple", "enum", "date",
       "object", "generic", "union", "intersection" >>

\* The first category of the precedence order, from position i on, that is
\* among flags.
RECURSIVE FirstFrom(_, _)
FirstFrom(flags, i) ==
    IF i > Len(Precedence) THEN "none"
    ELSE IF Precedence[i] \in flags THEN Precedence[i]
    ELSE FirstFrom(flags, i + 1)

\* The first category of the precedence order whose predicate holds of t.
FirstMatch(t) == FirstFrom(Flags(t), 1)

\* The builder calls a category may make.
BuildersOf(category) ==
    CASE category \in {"bigint", "literal"} -> {"buildLiteral"}
      [] category = "primitive" -> {"buildPrimitive"}
      [] category = "array" -> {"buildArray"}
      [] category = "tuple" -> {"buildTuple"}
      [] category = "enum" -> {"buildEnum"}
      [] category = "date" -> {"buildDate"}
      [] category = "object" ->
           {"buildReference", "buildIndexableObject", "buildObject"}
      [] category = "generic" -> {"buildAny"}
      [] category = "union" -> {"buildPrimitive", "buildUnion"}
      [] category = "intersection" -> {"buildIntersection"}
      [] OTHER -> {}

\* The loop a call of a category may be in.
LoopsOf(category) ==
    CASE category \in {"array", "tuple", "enum", "union", "intersection"} ->
           {category}
      [] category = "object" -> {"index", "props"}
      [] OTHER -> {}

HasIndexSignature(t) == Graph[t].stringIndex # 0 \/ Graph[t].numberIndex # 0

\* An object-like node with an index signature.
IndexableObject(t) == FirstMatch(t) = "object" /\ HasIndexSignature(t)

\* An object-like node without one.
PlainObject(t) == FirstMatch(t) = "object" /\ ~HasIndexSignature(t)

HasDeclarations(t) == Graph[t].decls \notin {"undefined", "0"}

\* A property that is none of the five excluded kinds.
Kept(q) ==
    /\ ~q.proto
    /\ q.decl
    /\ ~("object" \in Flags(q.type) /\ "functionLike" \in Flags(q.type))
    /\ ~q.getter
    /\ ~q.private

Names(props) == [i \in DOMAIN props |-> props[i].name]

\* The property of t called name.
Property(t, name) ==
    LET all == properties(t) IN
    all[CHOOSE i \in DOMAIN all : all[i].name = name]

NonUndefinedMembers(u) ==
    SelectSeq(Graph[u].types, LAMBDA m : "undefined" \notin Flags(m))

\* A property type that is a plain union with an undefined member.
UnionWithUndefined(u) ==
    /\ FirstMatch(u) = "union"
    /\ \E i \in DOMAIN Graph[u].types : "undefined" \in Flags(Graph[u].types[i])

\* v is what a recursion() call on type t returned in this pass.
BuiltFrom(v, t) ==
    \/ \E j \in DOMAIN calls : calls[j].type = t /\ calls[j].ir = v
    \/ v.tag = "string" /\ FirstMatch(t) \in {"none", "object"}

InPass == driver \in {"resolving", "resolved", "thrown"}

\* The root type of the pass in progress.
Root == nodesOfInterest[done + 1].type

\* The plain objects whose property loop is in progress.
Expanding == {stack[i].type : i \in {j \in DOMAIN stack : stack[j].pc = "props"}}

\* The indexable objects entered so far in this pass.
IndexablesEntered ==
    {stack[i].type : i \in {j \in DOMAIN stack : stack[j].pc = "index"}}
    \cup {calls[i].type :
            i \in {j \in DOMAIN calls : calls[j].fn = "buildIndexableObject"}}

CallsOf(fn, t) == {i \in DOMAIN calls : calls[i].fn = fn /\ calls[i].type = t}

-----------------------------------------------------------------------------
(* Claims.                                                                 *)

\* C1: recursion() terminates on every finite type graph, cyclic ones
\* included: the call stack never overflows, and no recursion() call is
\* nested in a call on the same type made with the same visited keys (such a
\* call repeats the steps of the enclosing one, so the chain never ends).
C1_RecursionTerminates ==
    /\ driver # "thrown"
    /\ \A i, j \in DOMAIN stack :
          i < j => ~(/\ stack[i].type = stack[j].type
                     /\ stack[i].entry = stack[j].entry)

\* A plain object with declarations one of whose resolved properties has the
\* object's own type.
SelfReferencing(t) ==
    /\ PlainObject(t)
    /\ HasDeclarations(t)
    /\ \E i \in DOMAIN properties(t) :
          Kept(properties(t)[i]) /\ properties(t)[i].type = t

\* C2: resolving a self-referencing plain object makes exactly one
\* buildObject call for it, with a reference carrying its identity at each
\* recursive occurrence, and its property loop is never entered a second time
\* inside its own expansion.
C2_SelfReferenceBuiltOnce ==
    /\ \A i, j \in DOMAIN stack :
          (i < j /\ stack[i].pc = "props" /\ stack[j].pc = "props")
             => stack[i].type # stack[j].type
    /\ \A i \in DOMAIN calls :
          (calls[i].fn = "buildObject" /\ SelfReferencing(calls[i].type)) =>
             \A k \in DOMAIN calls[i].ir.props :
                Property(calls[i].type, calls[i].ir.props[k].name).type
                      = calls[i].type
                   => calls[i].ir.props[k].resolvedType
                         = buildReference([id |-> calls[i].type,
                                           name |-> Graph[calls[i].type].name])
    /\ (driver = "resolved" /\ SelfReferencing(Root)) =>
          /\ Cardinality(CallsOf("buildObject", Root)) = 1
          /\ ret.tag = "object" /\ ret.id = Root
          /\ \E i \in CallsOf("buildReference", Root) :
                calls[i].ir = buildReference([id |-> Root,
                                             name |-> Graph[Root].name])

C2_Witness ==
    /\ driver = "resolved"
    /\ SelfReferencing(Root)
    /\ Cardinality(CallsOf("buildReference", Root)) = 2

\* C3: every call of recursion() takes the branch of the first category, in
\* the precedence order, whose predicate holds of its node, and makes a
\* builder call of that category only.
C3_FirstMatchWins ==
    /\ \A i \in DOMAIN calls :
          calls[i].fn \in BuildersOf(FirstMatch(calls[i].type))
    /\ \A i \in DOMAIN stack :
          stack[i].pc # "call" => stack[i].pc \in LoopsOf(FirstMatch(stack[i].type))
    /\ (driver = "resolved" /\ FirstMatch(Root) = "none") => calls = <<>>

C3_Witness ==
    /\ {"enum", "union", "intersection"} \subseteq probeFlags
    /\ \E i \in DOMAIN calls :
          calls[i].type = getTypeId("Probe") /\ calls[i].fn = "buildEnum"

\* The value type and key kind of t's index signature: the string one when
\* there is one, the number one otherwise.
IndexValueType(t) ==
    IF Graph[t].stringIndex # 0
      THEN Graph[t].stringIndex ELSE Graph[t].numberIndex

IndexKeyKind(t) == IF Graph[t].stringIndex # 0 THEN "string" ELSE "number"

\* C4 as stated: an object-like node with an index signature always yields
\* buildIndexableObject, from the string signature if there is one and from
\* the number signature otherwise.
C4_AlwaysIndexable ==
    \A i \in DOMAIN calls :
       IndexableObject(calls[i].type) =>
          /\ calls[i].fn = "buildIndexableObject"
          /\ calls[i].ir.kind = IndexKeyKind(calls[i].type)

\* C4 amended: an object-like node with an index signature yields
\* buildIndexableObject (string signature first) when its id is not in the
\* visited map at entry and buildReference when it is; never buildObject, and
\* its property loop is never entered.
C4_IndexableOrReference ==
    /\ \A i \in DOMAIN calls :
          IndexableObject(calls[i].type) =>
             IF calls[i].type \in calls[i].entry
               THEN calls[i].fn = "buildReference"
               ELSE /\ calls[i].fn = "buildIndexableObject"
                    /\ calls[i].ir.kind = IndexKeyKind(calls[i].type)
                    /\ Len(calls[i].ir.kids) = 1
                    /\ BuiltFrom(calls[i].ir.kids[1],
                                 IndexValueType(calls[i].type))
                    /\ calls[i].ir.props = <<>>
    /\ \A i \in DOMAIN stack :
          IndexableObject(stack[i].type) => stack[i].pc \in {"call", "index"}

C4_Witness ==
    \E i, j \in DOMAIN calls :
       /\ calls[i].type = getTypeId("BothDict")
       /\ calls[i].fn = "buildIndexableObject"
       /\ calls[j].type = getTypeId("Dict")
       /\ calls[j].fn = "buildReference"

\* The properties of the buildObject calls whose declared type is a plain
\* union with an undefined member, each with that declared type.
UndefinedUnionProperties ==
    UNION { { <<calls[i].ir.props[k],
                Property(calls[i].type, calls[i].ir.props[k].name).type>> :
              k \in { n \in DOMAIN calls[i].ir.props :
                        UnionWithUndefined(
                           Property(calls[i].type,
                                    calls[i].ir.props[n].name).type) } } :
            i \in { j \in DOMAIN calls : calls[j].fn = "buildObject" } }

NoUndefinedArm ==
    \A i \in DOMAIN calls :
       calls[i].fn = "buildUnion" =>
          \A k \in DOMAIN calls[i].ir.kids :
             calls[i].ir.kids[k] # buildPrimitive("undefined")

\* C5 as stated: a property of type T | undefined has maybeUndefined = true
\* and the resolvedType of T alone when T is the only member left, that of
\* the union of the members left otherwise; no buildUnion call gets an arm
\* built from undefined.
C5_UndefinedStripped ==
    /\ \A pu \in UndefinedUnionProperties :
          LET rest == NonUndefinedMembers(pu[2]) IN
          /\ pu[1].maybeUndefined
          /\ Len(rest) = 1 => BuiltFrom(pu[1].resolvedType, rest[1])
          /\ Len(rest) > 1 => pu[1].resolvedType.tag \in {"union", "primitive"}
    /\ NoUndefinedArm

\* C5 amended: such a property has maybeUndefined = true and, as
\* resolvedType, primitive("boolean") when the members left are the true and
\* the false literal, else the buildUnion of the members left, in order: a
\* union of one arm when T is the only one; no buildUnion call gets an arm
\* built from undefined.
C5_UndefinedFiltered ==
    /\ \A pu \in UndefinedUnionProperties :
          LET rest == NonUndefinedMembers(pu[2])
              r == pu[1].resolvedType IN
          /\ pu[1].maybeUndefined
          /\ IF isUnionBoolean(rest)
               THEN r = buildPrimitive("boolean")
               ELSE /\ r.tag = "union"
                    /\ Len(r.kids) = Len(rest)
                    /\ \A k \in DOMAIN rest : BuiltFrom(r.kids[k], rest[k])
    /\ NoUndefinedArm

C5_Witness ==
    \E pu \in UndefinedUnionProperties :
       /\ pu[1].name = "label"
       /\ pu[1].resolvedType = buildUnion(<<buildPrimitive("string")>>)
       /\ pu[1].maybeUndefined

\* C6 as stated: the property list of every buildObject call is, in
\* enumeration order, exactly the own and static properties that are none of
\* the five excluded kinds.
C6_ExactlyKept ==
    \A i \in DOMAIN calls :
       calls[i].fn = "buildObject" =>
          Names(calls[i].ir.props)
             = Names(SelectSeq(properties(calls[i].type), Kept))

\* C6 amended: so it is for every object whose symbol has declarations; an
\* object whose symbol has none is built with an empty property list. No
\* property of the five excluded kinds is ever in a list.
C6_KeptWhenDeclared ==
    \A i \in DOMAIN calls :
       calls[i].fn = "buildObject" =>
          /\ Names(calls[i].ir.props)
                = IF Graph[calls[i].type].decls = "undefined" THEN <<>>
                  ELSE Names(SelectSeq(properties(calls[i].type), Kept))
          /\ \A k \in DOMAIN calls[i].ir.props :
                /\ Kept(Property(calls[i].type, calls[i].ir.props[k].name))
                /\ calls[i].ir.props[k].isOptional
                      = Property(calls[i].type,
                                 calls[i].ir.props[k].name).optional
          /\ calls[i].ir.id = calls[i].type

C6_Witness ==
    \E i \in DOMAIN calls :
       /\ calls[i].fn = "buildObject"
       /\ calls[i].type = getTypeId("Class")
       /\ Names(calls[i].ir.props)
             = <<"id", "label", "flag", "multi", "maybe", "count">>

\* A string in place of a T among the arguments of a builder call.
HasSentinelArgument(ir) ==
    \/ \E k \in DOMAIN ir.kids : ir.kids[k].tag = "string"
    \/ \E k \in DOMAIN ir.members : ir.members[k].value.tag = "string"
    \/ \E k \in DOMAIN ir.props : ir.props[k].resolvedType.tag = "string"

\* C7: no recursion() call returns a string sentinel, and none is passed to
\* a builder call or to endResolution / endResolutionWithDefinitions (a node
\* of no category makes the pass fail instead).
C7_NoSentinel ==
    /\ ret.tag # "string"
    /\ \A i \in DOMAIN stack :
          /\ \A k \in DOMAIN stack[i].kids : stack[i].kids[k].tag # "string"
          /\ \A k \in DOMAIN stack[i].members :
                stack[i].members[k].value.tag # "string"
          /\ \A k \in DOMAIN stack[i].props :
                stack[i].props[k].resolvedType.tag # "string"
    /\ \A i \in DOMAIN calls : ~HasSentinelArgument(calls[i].ir)
    /\ \A i \in DOMAIN life : life[i].arg.tag # "string"

EndFn == IF returnDefinitions THEN "endResolutionWithDefinitions"
         ELSE "endResolution"

\* C8: for every node of interest, in order, processFiles calls
\* startResolution(), resolves the node with a visited map that starts empty,
\* then calls endResolution, or endResolutionWithDefinitions when
\* returnDefinitions is set, once with the resolved root; passes do not
\* interleave and the result has one entry per node, in order.
C8_PassLifecycle ==
    /\ Len(life) = 2 * done + (IF InPass THEN 1 ELSE 0)
    /\ Len(results) = done
    /\ done <= Len(nodesOfInterest)
    /\ \A n \in 1..done :
          /\ life[2 * n - 1].fn = "startResolution"
          /\ life[2 * n].fn = EndFn
          /\ life[2 * n].arg.tag # ""
          /\ results[n].resolvedType.tag = EndFn
          /\ results[n].resolvedType.kids = <<life[2 * n].arg>>
          /\ results[n].fileName = nodesOfInterest[n].fileName
          /\ results[n].definitionsMap = returnDefinitions
    /\ InPass => life[Len(life)].fn = "startResolution"
    /\ driver = "resolved" => ret.tag # "" /\ stack = <<>>
    /\ driver = "returned" => done = Len(nodesOfInterest)
    /\ stack # <<>> =>
          /\ driver \in {"resolving", "thrown"}
          /\ stack[1].type = Root
          /\ stack[1].entry = {}
          /\ \A i \in DOMAIN stack : stack[i].entry \subseteq DOMAIN visited
    /\ (driver = "resolving" /\ calls = <<>> /\ Len(stack) = 1
          /\ stack[1].pc = "call") => DOMAIN visited = {}

C8_Witness ==
    /\ driver = "returned"
    /\ returnDefinitions
    /\ Len(results) = 2
    /\ results[1].fileName # results[2].fileName
    /\ nodesOfInterest[1].type = getTypeId("Holder")

\* C9: during a pass the visited map holds exactly the plain objects whose
\* property loop is in progress, each known to have declarations, and the
\* indexable objects entered so far in the pass; no node of another category.
C9_VisitedExact ==
    InPass =>
       /\ DOMAIN visited = Expanding \cup IndexablesEntered
       /\ \A t \in DOMAIN visited :
             /\ visited[t] = [id |-> t, name |-> Graph[t].name]
             /\ FirstMatch(t) = "object"
             /\ PlainObject(t) => HasDeclarations(t) /\ t \in Expanding
             /\ IndexableObject(t) => t \in IndexablesEntered
       /\ \A t \in Expanding : PlainObject(t)
       /\ \A t \in IndexablesEntered : IndexableObject(t)

C9_Witness ==
    /\ driver = "resolving"
    /\ getTypeId("Dict") \in DOMAIN visited
    /\ CallsOf("buildIndexableObject", getTypeId("Dict")) # {}
    /\ CallsOf("buildObject", getTypeId("Leaf")) # {}
    /\ getTypeId("Leaf") \notin DOMAIN visited
    /\ getTypeId("Pair") \in DOMAIN visited

\* C10: buildReference is called for a node only when its id is in the
\* visited map as the call is entered: a plain object being expanded higher
\* on the stack, or an indexable object entered earlier in the pass. A plain
\* object that is not being expanded, such as a sibling repeat of a finished
\* one, enters its property loop again and is never a reference.
C10_ReferenceOnlyWhenVisited ==
    [][ /\ (/\ Len(calls') = Len(calls) + 1
            /\ calls'[Len(calls')].fn = "buildReference")
           => LET t == calls'[Len(calls')].type IN
              /\ t \in DOMAIN visited
              /\ t \in calls'[Len(calls')].entry
              /\ \/ PlainObject(t) /\ t \in Expanding
                 \/ IndexableObject(t) /\ t \in IndexablesEntered
        /\ (/\ Running
            /\ Top.pc = "call"
            /\ PlainObject(Top.type)
            /\ HasDeclarations(Top.type)
            /\ Top.type \notin Expanding
            /\ stack' # stack)
           => /\ Len(stack') = Len(stack)
              /\ stack'[Len(stack)].pc = "props"
              /\ calls' = calls
      ]_vars

C10_Witness ==
    /\ Cardinality(CallsOf("buildObject", getTypeId("Leaf"))) = 2
    /\ CallsOf("buildReference", getTypeId("Leaf")) = {}
    /\ CallsOf("buildReference", getTypeId("Dict")) # {}
    /\ CallsOf("buildObject", getTypeId("Pair")) # {}

====
